---- MODULE Spec2Model ----
(***************************************************************************)
(* A model of playbracket/models.py: the Django models Player, Sport,      *)
(* League, Event and Match, the statistics computed over them, and the     *)
(* write-time validation of Match.save.                                    *)
(*                                                                         *)
(* The datastore is the state.  A table is a variable named after its     *)
(* model: the set of stored primary keys (Player, Event) or a function     *)
(* from the stored primary keys to the row (Sport, League, Match).  A      *)
(* many-to-many relation is the set of related primary keys held in the    *)
(* row of the model that declares it.                                      *)
(***************************************************************************)
EXTENDS Integers, Sequences, FiniteSets

VARIABLES
    Player,   \* the stored Player primary keys (the pk stands for the unique name)
    Sport,    \* stored Sport pk -> its players relation (a set of Player pks)
    League,   \* stored League pk -> its sport (a Sport pk, or NULL)
    Event,    \* the stored Event primary keys
    Match,    \* stored Match pk -> [winners, losers, league, event]
    ret       \* what the last call returned or raised: [op, arg, error, value];
              \* NoCall after a call that returned nothing

vars == <<Player, Sport, League, Event, Match, ret>>

store == <<Player, Sport, League, Event, Match>>

(***************************************************************************)
(* Bounds of the model.                                                    *)
(***************************************************************************)
MaxPlayers == 2

MaxSports == 2

MaxLeagues == 2

MaxEvents == 2

MaxMatches == 2

\* most rows the many-to-many relation tables hold together
MaxRows == 2

\* largest argument hit_ratio is called with directly
MaxCount == 10

PlayerPks == 1..MaxPlayers

SportPks == 1..MaxSports

LeaguePks == 1..MaxLeagues

EventPks == 1..MaxEvents

MatchPks == 1..MaxMatches

\* a null foreign key, and the primary key of an instance never saved
NULL == 0

(***************************************************************************)
(* Outcomes of a call.                                                     *)
(***************************************************************************)
NoError == "ok"

WinnerInLosers == "ValidationError: You can't have a winner in the losers field"

LoserInWinners == "ValidationError: You can't have a loser in the winners field"

\* Django's many-to-many manager refuses an instance that has no primary key
\* (ValueError; building its message formats the instance with Match.__str__,
\* which asks for the manager again, so the interpreter can end the call with
\* RecursionError instead).  Either way: an error that is no ValidationError.
UnsavedInstance == "ValueError: needs to have a value for field id before this many-to-many relationship can be used"

\* self.sport is None in League.players
NoneHasNoPlayers == "AttributeError: 'NoneType' object has no attribute 'players'"

\* a table without rows
Empty == [k \in {} |-> NULL]

NoCall == [op |-> "none", arg |-> NULL, error |-> NoError, value |-> <<>>]

Call(op, arg, error, value) == [op |-> op, arg |-> arg, error |-> error, value |-> value]

(***************************************************************************)
(* Rational numbers <<n, d>> with d > 0, in lowest terms: the exact value  *)
(* of the float the code computes.  Division and multiplication of         *)
(* doubles round monotonically, and two different fractions of counts      *)
(* this small never round to the same double, so the order and equality    *)
(* of the doubles are those of the fractions.                              *)
(***************************************************************************)
RECURSIVE Gcd(_, _)
Gcd(a, b) == IF b = 0 THEN a ELSE Gcd(b, a % b)

Rat(n, d) == LET g == Gcd(n, d) IN IF g = 0 THEN <<0, 1>> ELSE <<n \div g, d \div g>>

RatDiv(a, b) == Rat(a, b)

RatMul(r, k) == Rat(r[1] * k, r[2])

RatLess(r, s) == r[1] * s[2] < s[1] * r[2]

hit_ratio_no_guard(hit, total) == RatMul(RatDiv(hit, total), 100)

hit_ratio(hit, total) ==
    IF total = 0
    THEN <<0, 1>>
    ELSE RatMul(RatDiv(hit, total), 100)

(***************************************************************************)
(* Match                                                                   *)
(***************************************************************************)
\* the rows of the winners and of the losers relation of the match pk; a
\* match that is not stored has none
winners(pk) == IF pk \in DOMAIN Match THEN Match[pk].winners ELSE {}

losers(pk) == IF pk \in DOMAIN Match THEN Match[pk].losers ELSE {}

\* Match.players: winners.all() | losers.all().  The combined query can
\* return a player more than once; every caller keeps the distinct players.
Match_players(pk) == winners(pk) \cup losers(pk)

validate_first_check_only(pk) ==
    LET winner_in_loser == {w \in winners(pk) : w \in losers(pk)}
    IN  IF winner_in_loser # {} THEN LoserInWinners ELSE NoError

validate_winners_losers_fields(pk) ==
    LET winner_in_loser == {w \in winners(pk) : w \in losers(pk)}
        loser_in_winner == {l \in losers(pk) : l \in winners(pk)}
    IN  IF winner_in_loser # {} THEN WinnerInLosers
        ELSE IF loser_in_winner # {} THEN LoserInWinners
        ELSE NoError

\* what Match.save raises: the validation reads self.winners, which an
\* instance without a primary key does not have
Match_save_error(pk) ==
    IF pk = NULL THEN UnsavedInstance ELSE validate_winners_losers_fields(pk)

\* the Match table after super().save(): the row pk is inserted, or its
\* league and event are updated; the relation rows are not touched
Match_saved(pk, league, event) ==
    [k \in DOMAIN Match \cup {pk} |->
        IF k = pk
        THEN [winners |-> winners(pk), losers |-> losers(pk),
              league |-> league, event |-> event]
        ELSE Match[k]]

Match_save(pk, league, event) ==
    LET error == Match_save_error(pk)
    IN  /\ league \in DOMAIN League \cup {NULL}
        /\ event \in Event \cup {NULL}
        /\ IF error = NoError
           THEN /\ Match' = Match_saved(pk, league, event)
                /\ ret' = NoCall
           ELSE /\ UNCHANGED Match
                /\ ret' = Call("Match.save", pk, error, <<>>)
        /\ UNCHANGED <<Player, Sport, League, Event>>

\* Match(league=..., event=...).save(), Match.objects.create(...): no pk yet
MatchCreate(league, event) == Match_save(NULL, league, event)

\* Match(pk=pk, ...).save() with a pk that is not stored
MatchInsert(pk, league, event) ==
    /\ pk \notin DOMAIN Match
    /\ Match_save(pk, league, event)

\* save() of a stored match
MatchUpdate(pk, league, event) ==
    /\ pk \in DOMAIN Match
    /\ Match_save(pk, league, event)

\* the rows the relation tables hold: Match.winners, Match.losers, Sport.players
RECURSIVE MatchRows(_)
MatchRows(pks) ==
    IF pks = {} THEN 0
    ELSE LET k == CHOOSE x \in pks : TRUE
         IN  Cardinality(Match[k].winners) + Cardinality(Match[k].losers)
             + MatchRows(pks \ {k})

RECURSIVE SportRows(_)
SportRows(pks) ==
    IF pks = {} THEN 0
    ELSE LET k == CHOOSE x \in pks : TRUE
         IN  Cardinality(Sport[k]) + SportRows(pks \ {k})

Rows == MatchRows(DOMAIN Match) + SportRows(DOMAIN Sport)

\* match.winners.add(player): writes the relation row; Match.save is not called
WinnersAdd(pk, p) ==
    /\ pk \in DOMAIN Match
    /\ p \in Player
    /\ p \notin Match[pk].winners
    /\ Rows < MaxRows
    /\ Match' = [Match EXCEPT ![pk].winners = @ \cup {p}]
    /\ ret' = NoCall
    /\ UNCHANGED <<Player, Sport, League, Event>>

WinnersRemove(pk, p) ==
    /\ pk \in DOMAIN Match
    /\ p \in Match[pk].winners
    /\ Match' = [Match EXCEPT ![pk].winners = @ \ {p}]
    /\ ret' = NoCall
    /\ UNCHANGED <<Player, Sport, League, Event>>

LosersAdd(pk, p) ==
    /\ pk \in DOMAIN Match
    /\ p \in Player
    /\ p \notin Match[pk].losers
    /\ Rows < MaxRows
    /\ Match' = [Match EXCEPT ![pk].losers = @ \cup {p}]
    /\ ret' = NoCall
    /\ UNCHANGED <<Player, Sport, League, Event>>

LosersRemove(pk, p) ==
    /\ pk \in DOMAIN Match
    /\ p \in Match[pk].losers
    /\ Match' = [Match EXCEPT ![pk].losers = @ \ {p}]
    /\ ret' = NoCall
    /\ UNCHANGED <<Player, Sport, League, Event>>

\* delete() returns the number of rows it deleted, per model
Deleted(sports, leagues, events, matches) ==
    [Sport |-> sports, League |-> leagues, Event |-> events, Match |-> matches]

MatchDelete(pk) ==
    /\ pk \in DOMAIN Match
    /\ Match' = [k \in DOMAIN Match \ {pk} |-> Match[k]]
    /\ ret' = Call("Match.delete", pk, NoError, Deleted(0, 0, 0, 1))
    /\ UNCHANGED <<Player, Sport, League, Event>>

(***************************************************************************)
(* Event                                                                   *)
(***************************************************************************)
\* self.matches: the reverse of Match.event
Event_matches(e) == {k \in DOMAIN Match : Match[k].event = e}

Event_players(e) == UNION {Match_players(k) : k \in Event_matches(e)}

player_result_all_events(e, player) ==
    LET won == Cardinality({k \in DOMAIN Match : player \in Match[k].winners})
        lost == Cardinality({k \in DOMAIN Match : player \in Match[k].losers})
        win_ration == hit_ratio(won, won + lost)
    IN  [name |-> player, won |-> won, lost |-> lost, total |-> won + lost,
         win_ratio |-> win_ration]

player_result(e, player) ==
    LET won == Cardinality({k \in Event_matches(e) : player \in Match[k].winners})
        lost == Cardinality({k \in Event_matches(e) : player \in Match[k].losers})
        win_ration == hit_ratio(won, won + lost)
    IN  [name |-> player, won |-> won, lost |-> lost, total |-> won + lost,
         win_ratio |-> win_ration]

\* iteration of a Python set of model instances: an instance hashes as its
\* pk, and pks this small sit in the set's table in increasing order
RECURSIVE set_iteration(_)
set_iteration(S) ==
    IF S = {} THEN <<>>
    ELSE LET least == CHOOSE x \in S : \A y \in S : x <= y
         IN  <<least>> \o set_iteration(S \ {least})

\* x placed behind every entry whose key is not smaller: equal keys keep
\* the order they arrived in (sorted is stable, also with reverse=True)
RECURSIVE insert_reverse(_, _)
insert_reverse(x, s) ==
    IF s = <<>> THEN <<x>>
    ELSE IF RatLess(Head(s).win_ratio, x.win_ratio)
         THEN <<x>> \o s
         ELSE <<Head(s)>> \o insert_reverse(x, Tail(s))

RECURSIVE insert_forward(_, _)
insert_forward(x, s) ==
    IF s = <<>> THEN <<x>>
    ELSE IF RatLess(x.win_ratio, Head(s).win_ratio)
         THEN <<x>> \o s
         ELSE <<Head(s)>> \o insert_forward(x, Tail(s))

RECURSIVE sorted_ascending(_)
sorted_ascending(s) ==
    IF s = <<>> THEN <<>>
    ELSE insert_forward(s[Len(s)], sorted_ascending(SubSeq(s, 1, Len(s) - 1)))

\* sorted(ranking, key=lambda d: d["win_ratio"], reverse=True)
RECURSIVE sorted_reverse(_)
sorted_reverse(s) ==
    IF s = <<>> THEN <<>>
    ELSE insert_reverse(s[Len(s)], sorted_reverse(SubSeq(s, 1, Len(s) - 1)))

ranking(e) ==
    LET order == set_iteration(Event_players(e))
        appended == [i \in 1..Len(order) |-> player_result(e, order[i])]
    IN  sorted_reverse(appended)

RankingCall(e) ==
    /\ e \in Event
    /\ ret' = Call("Event.ranking", e, NoError, ranking(e))
    /\ UNCHANGED store

(***************************************************************************)
(* Player statistics                                                       *)
(***************************************************************************)
\* the match's league is stored and its sport is the given one
league__sport(k, sport) ==
    /\ Match[k].league # NULL
    /\ League[Match[k].league] = sport

sport_win_ratio_any_league(player, sport) ==
    LET won == Cardinality({k \in DOMAIN Match :
                   player \in Match[k].winners /\ Match[k].league # NULL})
        lost == Cardinality({k \in DOMAIN Match :
                   player \in Match[k].losers /\ Match[k].league # NULL})
    IN  hit_ratio(won, won + lost)

sport_win_ratio(player, sport) ==
    LET won == Cardinality({k \in DOMAIN Match :
                   player \in Match[k].winners /\ league__sport(k, sport)})
        lost == Cardinality({k \in DOMAIN Match :
                   player \in Match[k].losers /\ league__sport(k, sport)})
    IN  hit_ratio(won, won + lost)

league_win_ratio(player, league) ==
    LET won == Cardinality({k \in DOMAIN Match :
                   player \in Match[k].winners /\ Match[k].league = league})
        lost == Cardinality({k \in DOMAIN Match :
                   player \in Match[k].losers /\ Match[k].league = league})
    IN  hit_ratio(won, won + lost)

SportWinRatioCall(player, sport) ==
    /\ player \in Player
    /\ sport \in DOMAIN Sport
    /\ ret' = Call("Player.sport_win_ratio", <<player, sport>>, NoError,
                   sport_win_ratio(player, sport))
    /\ UNCHANGED store

LeagueWinRatioCall(player, league) ==
    /\ player \in Player
    /\ league \in DOMAIN League
    /\ ret' = Call("Player.league_win_ratio", <<player, league>>, NoError,
                   league_win_ratio(player, league))
    /\ UNCHANGED store

(***************************************************************************)
(* Sport and League                                                        *)
(***************************************************************************)
League_players_of_matches(league) ==
    IF League[league] = NULL
    THEN [error |-> NoneHasNoPlayers, value |-> {}]
    ELSE [error |-> NoError,
          value |-> {p \in Sport[League[league]] :
                        \E k \in DOMAIN Match :
                            Match[k].league = league /\ p \in Match_players(k)}]

\* League.players: self.sport.players.all()
League_players(league) ==
    IF League[league] = NULL
    THEN [error |-> NoneHasNoPlayers, value |-> {}]
    ELSE [error |-> NoError, value |-> Sport[League[league]]]

LeaguePlayersCall(league) ==
    /\ league \in DOMAIN League
    /\ ret' = Call("League.players", league, League_players(league).error,
                   League_players(league).value)
    /\ UNCHANGED store

SportPlayersAdd(sport, p) ==
    /\ sport \in DOMAIN Sport
    /\ p \in Player
    /\ p \notin Sport[sport]
    /\ Rows < MaxRows
    /\ Sport' = [Sport EXCEPT ![sport] = @ \cup {p}]
    /\ ret' = NoCall
    /\ UNCHANGED <<Player, League, Event, Match>>

SportPlayersRemove(sport, p) ==
    /\ sport \in DOMAIN Sport
    /\ p \in Sport[sport]
    /\ Sport' = [Sport EXCEPT ![sport] = @ \ {p}]
    /\ ret' = NoCall
    /\ UNCHANGED <<Player, League, Event, Match>>

\* League(name=..., sport=...).save(): sport is a stored Sport or None
LeagueCreate(pk, sport) ==
    /\ pk \notin DOMAIN League
    /\ sport \in DOMAIN Sport \cup {NULL}
    /\ League' = [k \in DOMAIN League \cup {pk} |->
                     IF k = pk THEN sport ELSE League[k]]
    /\ ret' = NoCall
    /\ UNCHANGED <<Player, Sport, Event, Match>>

EventCreate(pk) ==
    /\ pk \notin Event
    /\ Event' = Event \cup {pk}
    /\ ret' = NoCall
    /\ UNCHANGED <<Player, Sport, League, Match>>

(***************************************************************************)
(* Deletion.  on_delete=CASCADE of Match.league, Match.event and           *)
(* League.sport deletes the referring rows with the row they refer to.     *)
(***************************************************************************)
cascade_set_null(gone_leagues, gone_events) ==
    [k \in DOMAIN Match |->
        [Match[k] EXCEPT
            !.league = IF @ \in gone_leagues THEN NULL ELSE @,
            !.event = IF @ \in gone_events THEN NULL ELSE @]]

\* the Match table once the matches of the deleted leagues and events are gone
cascade(gone_leagues, gone_events) ==
    LET kept == {k \in DOMAIN Match :
                    /\ Match[k].league \notin gone_leagues
                    /\ Match[k].event \notin gone_events}
    IN  [k \in kept |-> Match[k]]

LeagueDelete(pk) ==
    /\ pk \in DOMAIN League
    /\ League' = [k \in DOMAIN League \ {pk} |-> League[k]]
    /\ Match' = cascade({pk}, {})
    /\ ret' = Call("League.delete", pk, NoError,
                   Deleted(0, 1, 0, Cardinality(DOMAIN Match \ DOMAIN Match')))
    /\ UNCHANGED <<Player, Sport, Event>>

EventDelete(pk) ==
    /\ pk \in Event
    /\ Event' = Event \ {pk}
    /\ Match' = cascade({}, {pk})
    /\ ret' = Call("Event.delete", pk, NoError,
                   Deleted(0, 0, 1, Cardinality(DOMAIN Match \ DOMAIN Match')))
    /\ UNCHANGED <<Player, Sport, League>>

\* League.sport is on_delete=CASCADE too: the leagues of a deleted sport go,
\* and their matches with them
SportDelete(pk) ==
    LET gone == {l \in DOMAIN League : League[l] = pk}
    IN  /\ pk \in DOMAIN Sport
        /\ Sport' = [k \in DOMAIN Sport \ {pk} |-> Sport[k]]
        /\ League' = [k \in DOMAIN League \ gone |-> League[k]]
        /\ Match' = cascade(gone, {})
        /\ ret' = Call("Sport.delete", pk, NoError,
                       Deleted(1, Cardinality(gone), 0,
                               Cardinality(DOMAIN Match \ DOMAIN Match')))
        /\ UNCHANGED <<Player, Event>>

\* hit_ratio called directly
HitRatioCall(hit, total) ==
    /\ ret' = Call("hit_ratio", <<hit, total>>, NoError, hit_ratio(hit, total))
    /\ UNCHANGED store

(***************************************************************************)
(* Specifications.  Each starts from a fixture and runs the operations of  *)
(* one part of the program.                                                *)
(***************************************************************************)
\* the pk an insert without gaps uses next
NextPk(stored) == Cardinality(stored) + 1

\* matches and their relations, with one event to attach them to
InitMatch ==
    /\ Player = PlayerPks
    /\ Sport = Empty
    /\ League = Empty
    /\ Event = {1}
    /\ Match = Empty
    /\ ret = NoCall

NextMatch ==
    \/ \E e \in Event \cup {NULL} : MatchCreate(NULL, e)
    \/ \E pk \in MatchPks : MatchInsert(pk, NULL, NULL)
    \/ \E pk \in MatchPks, e \in Event \cup {NULL} : MatchUpdate(pk, NULL, e)
    \/ \E pk \in MatchPks, p \in PlayerPks : WinnersAdd(pk, p)
    \/ \E pk \in MatchPks, p \in PlayerPks : WinnersRemove(pk, p)
    \/ \E pk \in MatchPks, p \in PlayerPks : LosersAdd(pk, p)
    \/ \E pk \in MatchPks, p \in PlayerPks : LosersRemove(pk, p)
    \/ \E pk \in MatchPks : MatchDelete(pk)

SpecMatch == InitMatch /\ [][NextMatch]_vars

\* the pure function hit_ratio
InitRatio ==
    /\ Player = {}
    /\ Sport = Empty
    /\ League = Empty
    /\ Event = {}
    /\ Match = Empty
    /\ ret = NoCall

NextRatio == \E hit \in 0..MaxCount, total \in 0..MaxCount : HitRatioCall(hit, total)

SpecRatio == InitRatio /\ [][NextRatio]_vars

\* the matches of events and the ranking computed from them
InitEvent ==
    /\ Player = PlayerPks
    /\ Sport = Empty
    /\ League = Empty
    /\ Event = EventPks
    /\ Match = Empty
    /\ ret = NoCall

NextEvent ==
    \/ \E e \in EventPks \cup {NULL} :
           /\ NextPk(DOMAIN Match) \in MatchPks
           /\ MatchInsert(NextPk(DOMAIN Match), NULL, e)
    \/ \E pk \in MatchPks, p \in PlayerPks : WinnersAdd(pk, p)
    \/ \E pk \in MatchPks, p \in PlayerPks : LosersAdd(pk, p)
    \/ \E e \in EventPks : RankingCall(e)

SpecEvent == InitEvent /\ [][NextEvent]_vars

\* sport 1 has two leagues, sport 2 has one, and one league has no sport
StatsLeagues == <<1, 1, 2, NULL>>

\* the matches of leagues and the win ratios of two players, per sport and
\* per league
InitStats ==
    /\ Player = {1, 2}
    /\ Sport = [s \in SportPks |-> {}]
    /\ League = StatsLeagues
    /\ Event = {}
    /\ Match = Empty
    /\ ret = NoCall

NextStats ==
    \/ \E l \in DOMAIN StatsLeagues \cup {NULL} :
           /\ NextPk(DOMAIN Match) \in MatchPks
           /\ MatchInsert(NextPk(DOMAIN Match), l, NULL)
    \/ \E pk \in MatchPks, p \in PlayerPks : WinnersAdd(pk, p)
    \/ \E pk \in MatchPks, p \in PlayerPks : LosersAdd(pk, p)
    \/ \E p \in PlayerPks, s \in SportPks : SportWinRatioCall(p, s)
    \/ \E p \in PlayerPks, l \in DOMAIN StatsLeagues : LeagueWinRatioCall(p, l)

SpecStats == InitStats /\ [][NextStats]_vars

\* league l plays sport l, and the last league has no sport
LeagueLeagues ==
    [l \in LeaguePks |-> IF l = MaxLeagues \/ l > MaxSports THEN NULL ELSE l]

\* sports with their players, leagues with or without a sport, and the
\* matches of the leagues
InitLeague ==
    /\ Player = PlayerPks
    /\ Sport = [s \in SportPks |-> {}]
    /\ League = LeagueLeagues
    /\ Event = {}
    /\ Match = Empty
    /\ ret = NoCall

NextLeague ==
    \/ \E s \in SportPks, p \in PlayerPks : SportPlayersAdd(s, p)
    \/ \E s \in SportPks, p \in PlayerPks : SportPlayersRemove(s, p)
    \/ \E pk \in MatchPks, l \in LeaguePks \cup {NULL} : MatchInsert(pk, l, NULL)
    \/ \E pk \in MatchPks, p \in PlayerPks : WinnersAdd(pk, p)
    \/ \E pk \in MatchPks : MatchDelete(pk)
    \/ \E l \in LeaguePks : LeaguePlayersCall(l)

SpecLeague == InitLeague /\ [][NextLeague]_vars

\* creation and deletion of sports, leagues, events and matches
InitCascade ==
    /\ Player = PlayerPks
    /\ Sport = [s \in {1} |-> {}]
    /\ League = Empty
    /\ Event = {}
    /\ Match = Empty
    /\ ret = NoCall

NextCascade ==
    \/ \E pk \in LeaguePks, s \in DOMAIN Sport \cup {NULL} : LeagueCreate(pk, s)
    \/ \E pk \in EventPks : EventCreate(pk)
    \/ \E pk \in MatchPks, l \in LeaguePks \cup {NULL}, e \in EventPks \cup {NULL} :
           MatchInsert(pk, l, e)
    \/ \E pk \in LeaguePks : LeagueDelete(pk)
    \/ \E pk \in EventPks : EventDelete(pk)
    \/ \E pk \in MatchPks : MatchDelete(pk)
    \/ \E pk \in DOMAIN Sport : SportDelete(pk)

SpecCascade == InitCascade /\ [][NextCascade]_vars

(***************************************************************************)
(* The claims.                                                             *)
(***************************************************************************)
ValidationErrors == {WinnerInLosers, LoserInWinners}

\* some player is in the winners and in the losers relation of the match pk
Overlap(pk) == winners(pk) \cap losers(pk) # {}

\* C1: every stored Match has disjoint winners and losers, whatever sequence
\* of creations, saves and additions to or removals from the two relations
\* produced it.
C1_StoredMatchesDisjoint ==
    \A k \in DOMAIN Match : Match[k].winners \cap Match[k].losers = {}

\* C2: every Match.save, of a new Match and of a stored one, raises
\* ValidationError and writes nothing when winners and losers share a player,
\* and otherwise raises nothing and leaves the Match stored with the fields it
\* was saved with; a new Match, whose relations are empty, is saved.
C2_SaveValidatesThenPersists ==
    [][\A pk \in MatchPks \cup {NULL}, e \in EventPks \cup {NULL} :
          Match_save(pk, NULL, e) =>
              IF Overlap(pk)
              THEN /\ ret'.op = "Match.save"
                   /\ ret'.error \in ValidationErrors
                   /\ Match' = Match
              ELSE /\ ret' = NoCall
                   /\ pk # NULL => pk \in DOMAIN Match' /\ Match'[pk].event = e
                   /\ pk = NULL => DOMAIN Match' # DOMAIN Match]_vars

\* C10: the validation of a stored Match raises the winner-in-losers message
\* whenever some winner is also a loser, raises the loser-in-winners message
\* where that first check passes and some loser is also a winner, raises
\* nothing where both checks pass, and leaves every winners and losers
\* relation as it was.
C10_WinnerCheckedFirst ==
    [][\A pk \in MatchPks, e \in EventPks \cup {NULL} :
          Match_save(pk, NULL, e) =>
              LET first == \E w \in winners(pk) : w \in losers(pk)
                  second == \E l \in losers(pk) : l \in winners(pk)
              IN  /\ first => ret' = Call("Match.save", pk, WinnerInLosers, <<>>)
                  /\ (~first /\ second) =>
                         ret' = Call("Match.save", pk, LoserInWinners, <<>>)
                  /\ (~first /\ ~second) => ret' = NoCall
                  /\ \A k \in DOMAIN Match :
                         /\ k \in DOMAIN Match'
                         /\ Match'[k].winners = Match[k].winners
                         /\ Match'[k].losers = Match[k].losers]_vars

\* a save of a stored match with a winner among its losers raised the
\* winner-in-losers message, and the relations still hold that player
C10_Witness ==
    /\ ret.op = "Match.save"
    /\ ret.error = WinnerInLosers
    /\ ret.arg \in DOMAIN Match
    /\ Overlap(ret.arg)

\* C5: hit_ratio(hit, total) is 0 whenever total is 0; otherwise it is
\* hit / total * 100, so that hit_ratio(1, 2) = 50, hit_ratio(2, 2) = 100 and
\* hit_ratio(0, 5) = 0, and it lies between 0 and 100 when 0 <= hit <= total.
C5_HitRatio ==
    ret.op = "hit_ratio" =>
        LET hit == ret.arg[1]
            total == ret.arg[2]
            r == ret.value
        IN  /\ ret.error = NoError
            /\ r[2] > 0
            /\ total = 0 => r[1] = 0
            /\ total # 0 => r[1] * total = hit * 100 * r[2]
            /\ (hit = 1 /\ total = 2) => r = <<50, 1>>
            /\ (hit = 2 /\ total = 2) => r = <<100, 1>>
            /\ (hit = 0 /\ total = 5) => r = <<0, 1>>
            /\ (hit <= total /\ total > 0) => (0 <= r[1] /\ r[1] <= 100 * r[2])

\* hit_ratio(3, 0) returned 0
C5_Witness ==
    /\ ret.op = "hit_ratio"
    /\ ret.arg = <<3, 0>>
    /\ ret.value = <<0, 1>>

\* the players of the matches of event e, and the matches of e a player won
\* and lost, read off the Match table
C3_Players(e) ==
    {p \in PlayerPks : \E k \in DOMAIN Match :
        Match[k].event = e /\ (p \in Match[k].winners \/ p \in Match[k].losers)}

C3_Won(e, p) == {k \in DOMAIN Match : Match[k].event = e /\ p \in Match[k].winners}

C3_Lost(e, p) == {k \in DOMAIN Match : Match[k].event = e /\ p \in Match[k].losers}

\* C3: Event.ranking() has exactly one entry for each player of a match of
\* the event; in it won and lost count the matches of the event with the player
\* among the winners and among the losers, total is won + lost and win_ratio is
\* hit_ratio(won, total).
C3_RankingEntries ==
    ret.op = "Event.ranking" =>
        LET e == ret.arg
            r == ret.value
        IN  /\ {r[i].name : i \in 1..Len(r)} = C3_Players(e)
            /\ Len(r) = Cardinality(C3_Players(e))
            /\ \A i \in 1..Len(r) :
                   /\ r[i].won = Cardinality(C3_Won(e, r[i].name))
                   /\ r[i].lost = Cardinality(C3_Lost(e, r[i].name))
                   /\ r[i].total = r[i].won + r[i].lost
                   /\ r[i].win_ratio = hit_ratio(r[i].won, r[i].total)

\* the ranking of an event was computed with a player who won one of its
\* matches and lost another
C3_Witness ==
    /\ ret.op = "Event.ranking"
    /\ \E i \in 1..Len(ret.value) :
           /\ ret.value[i].won = 1
           /\ ret.value[i].lost = 1
           /\ ret.value[i].win_ratio = <<50, 1>>

\* C4: the list Event.ranking() returns is non-increasing in win_ratio: no
\* entry is followed by one with a strictly larger win_ratio.
C4_RankingNonIncreasing ==
    ret.op = "Event.ranking" =>
        \A i \in 1..Len(ret.value), j \in 1..Len(ret.value) :
            i < j => ~RatLess(ret.value[i].win_ratio, ret.value[j].win_ratio)

\* player 2 won every match and player 1 lost every match of the event, and
\* the ranking lists player 2 first
C4_Witness ==
    /\ ret.op = "Event.ranking"
    /\ Len(ret.value) = 2
    /\ ret.value[1].name = 2
    /\ ret.value[1].win_ratio = <<100, 1>>
    /\ ret.value[2].name = 1
    /\ ret.value[2].win_ratio = <<0, 1>>

\* the matches of league l with player p among the winners (side 1) or the
\* losers (side 2)
C6_Count(l, p, side) ==
    Cardinality({k \in DOMAIN Match :
        /\ Match[k].league = l
        /\ p \in (IF side = 1 THEN Match[k].winners ELSE Match[k].losers)})

RECURSIVE C6_Sum(_, _, _)
C6_Sum(leagues, p, side) ==
    IF leagues = {} THEN 0
    ELSE LET l == CHOOSE x \in leagues : TRUE
         IN  C6_Count(l, p, side) + C6_Sum(leagues \ {l}, p, side)

\* C6: sport_win_ratio(player, sport) is hit_ratio(W, W + L) where W and L
\* are the sums, over the leagues of the sport, of the matches of the league
\* the player won and lost; league_win_ratio(player, league) is
\* hit_ratio(w, w + l) for the matches of that league alone.
C6_WinRatios ==
    /\ ret.op = "Player.sport_win_ratio" =>
           LET p == ret.arg[1]
               leagues == {l \in DOMAIN League : League[l] = ret.arg[2]}
               W == C6_Sum(leagues, p, 1)
               L == C6_Sum(leagues, p, 2)
           IN  ret.value = hit_ratio(W, W + L)
    /\ ret.op = "Player.league_win_ratio" =>
           LET p == ret.arg[1]
               w == C6_Count(ret.arg[2], p, 1)
               l == C6_Count(ret.arg[2], p, 2)
           IN  ret.value = hit_ratio(w, w + l)

\* a player's win ratio in a sport was computed from a match won in one
\* league of the sport and a match lost in another league of it
C6_Witness ==
    /\ ret.op = "Player.sport_win_ratio"
    /\ ret.value = <<50, 1>>
    /\ \E k1 \in DOMAIN Match, k2 \in DOMAIN Match :
           /\ Match[k1].league # NULL
           /\ Match[k2].league # NULL
           /\ Match[k1].league # Match[k2].league
           /\ League[Match[k1].league] = ret.arg[2]
           /\ League[Match[k2].league] = ret.arg[2]
           /\ ret.arg[1] \in Match[k1].winners
           /\ ret.arg[1] \in Match[k2].losers

\* every stored Match refers to a stored League or to none, and to a stored
\* Event or to none
C7_NoDanglingMatch ==
    \A k \in DOMAIN Match :
        /\ Match[k].league \in DOMAIN League \cup {NULL}
        /\ Match[k].event \in Event \cup {NULL}

\* a step that deletes leagues or events deletes the matches attached to them
\* and nothing else
C7_DeletesItsMatches ==
    LET gone_leagues == DOMAIN League \ DOMAIN League'
        gone_events == Event \ Event'
    IN  (gone_leagues # {} \/ gone_events # {}) =>
            /\ Player' = Player
            /\ DOMAIN Match' = {k \in DOMAIN Match :
                                   /\ Match[k].league \notin gone_leagues
                                   /\ Match[k].event \notin gone_events}
            /\ \A k \in DOMAIN Match' : Match'[k] = Match[k]

\* C7: no stored Match refers to a League or an Event that is not stored, and
\* a step that deletes leagues or events deletes exactly the matches attached
\* to them: every other match stays as it was, and so does every player.
C7_CascadeDelete == []C7_NoDanglingMatch /\ [][C7_DeletesItsMatches]_vars

\* a league was deleted with one match of its own, and a match attached to
\* no league is still stored
C7_Witness ==
    /\ ret.op = "League.delete"
    /\ ret.value.Match = 1
    /\ \E k \in DOMAIN Match : Match[k].league = NULL

\* C8: the only error an operation raises is the ValidationError of
\* Match.save; League.players() of a League without a sport raises nothing.
C8_OnlyValidationError == ret.error \in {NoError} \cup ValidationErrors

\* League.players() of a league with a sport returns the players of the sport
C9_IsRoster ==
    (ret.op = "League.players" /\ League[ret.arg] # NULL) =>
        /\ ret.error = NoError
        /\ \A p \in PlayerPks : p \in ret.value <=> p \in Sport[League[ret.arg]]

\* a step that leaves the sports and the leagues as they are leaves the
\* result of League.players() as it is
C9_MatchesDoNotCount ==
    (Sport' = Sport /\ League' = League) =>
        \A l \in DOMAIN League : League_players(l)' = League_players(l)

\* C9: League.players() of a league whose sport is S returns the players of S
\* and no others, and no step that leaves the sports and the leagues as they
\* are, such as adding or removing a match of the league, changes what it
\* returns.
C9_LeaguePlayersIsRoster == []C9_IsRoster /\ [][C9_MatchesDoNotCount]_vars

\* League.players() returned the one member of the league's sport while a
\* match of the league has another player as a winner
C9_Witness ==
    /\ ret.op = "League.players"
    /\ League[ret.arg] # NULL
    /\ ret.value # {}
    /\ \E k \in DOMAIN Match :
           /\ Match[k].league = ret.arg
           /\ Match[k].winners # {}
           /\ Match[k].winners \cap ret.value = {}

====
